---------------------------- MODULE Spec2Model ----------------------------
(***************************************************************************)
(* Model of the multi-account SuiteQL dispatch: the Suitelet's            *)
(* executeQuery (realm resolution, credential lookup, OAuth 1.0a signing,  *)
(* signed POST, response relay) and the OAuth engine of oauth.js.          *)
(*                                                                         *)
(* Strings are sequences of tokens.  A token is an indivisible piece of   *)
(* text ("https://", ".", "-", "sb1", "oauth_", ...); the token alphabet   *)
(* is prefix-free, so two strings are equal exactly when their token       *)
(* sequences are equal, and the byte-wise order of two strings is the      *)
(* lexicographic order of their token sequences.                           *)
(***************************************************************************)
EXTENDS Integers, Sequences, FiniteSets, TLC

(***************************************************************************)
(* Bounds                                                                  *)
(***************************************************************************)
\* Largest number of hyphen-separated parts of the first host label of a
\* remoteUrl the caller supplies.
MaxLabelParts == 3

\* Largest value of the clock (whole seconds) read by getTimeStamp.
MaxTime == 2

\* Largest number of half seconds that pass on the clock of an application
\* that calls the signing engine itself.
MaxTicks == 2

\* Largest number of authorize calls made on one engine.
MaxCalls == 2

\* Largest number of getSignature calls made with the same objects.
MaxSigs == 2

(***************************************************************************)
(* Strings                                                                 *)
(***************************************************************************)
\* ''
EmptyStr == << >>

\* JavaScript truthiness of a string value (null, undefined and '' are falsy;
\* all three are the empty string here).
Truthy(s) == s # EmptyStr

\* Index of the first occurrence of token t in s, 0 when there is none.
IndexOfTok(s, t) ==
    IF \E i \in 1..Len(s) : s[i] = t
    THEN CHOOSE i \in 1..Len(s) : s[i] = t /\ \A j \in 1..(i - 1) : s[j] # t
    ELSE 0

\* String.prototype.replace with a string pattern: only the FIRST occurrence
\* of the pattern is replaced.
StringReplace(s, t, u) ==
    LET k == IndexOfTok(s, t)
    IN  [i \in 1..Len(s) |-> IF i = k THEN u ELSE s[i]]

\* String.prototype.toUpperCase, token by token.
UpperTok(t) ==
    CASE t = "sb1" -> "SB1"
      [] t = "sb2" -> "SB2"
      [] t = "evil" -> "EVIL"
      [] t = "restlets" -> "RESTLETS"
      [] t = "app" -> "APP"
      [] t = "post" -> "POST"
      [] t = "get" -> "GET"
      [] OTHER -> t

ToUpperCase(s) == [i \in 1..Len(s) |-> UpperTok(s[i])]

(***************************************************************************)
(* Configuration                                                           *)
(***************************************************************************)
\* The marker of an empty array slot (reading it yields undefined).
Hole == [hole |-> TRUE]

\* One dense entry of the credential list.
Credential(realm, ck, cs, tk, ts) ==
    [hole |-> FALSE, realm |-> realm,
     consumer |-> [key |-> ck, secret |-> cs],
     token |-> [id |-> tk, secret |-> ts]]

\* The secrets of a deployment: variant 1 is the shipped sample, where every
\* key and secret is '0123456789'; variant 2 is a deployment with its own
\* secrets.  Realms, keys, ids and the layout of the list are the same.
SecretVariants == {1, 2}

ConsumerSecretOf(v, n) == IF v = 1 THEN <<"0123456789">> ELSE <<"cs", n>>
TokenSecretOf(v, n) == IF v = 1 THEN <<"0123456789">> ELSE <<"ts", n>>

\* secret.js: the credential list, with the empty slot the stray comma after
\* the second entry leaves at index 2 (0-based).
secret(v) ==
    << Credential(<<"1337">>, <<"0123456789">>, ConsumerSecretOf(v, "a"),
                  <<"0123456789">>, TokenSecretOf(v, "a")),
       Credential(<<"1337", "_", "SB1">>, <<"0123456789">>, ConsumerSecretOf(v, "b"),
                  <<"0123456789">>, TokenSecretOf(v, "b")),
       Hole,
       Credential(<<"1337", "_", "SB2">>, <<"0123456789">>, ConsumerSecretOf(v, "c"),
                  <<"0123456789">>, TokenSecretOf(v, "c")) >>

\* The path and query of a RESTlet URL, as in the README's example of the
\* custscript_il_suiteql_accounts parameter.
RestletTail == <<".", "restlets", "/", "app", "?", "script", "=", "69">>

\* The configured remote accounts (script parameter custscript_il_suiteql_accounts).
remoteAccounts ==
    { [description |-> "Sandbox-1", account |-> "1337_sb1",
       url |-> <<"https://", "1337", "-", "sb1">> \o RestletTail],
      [description |-> "Sandbox-2", account |-> "1337_sb2",
       url |-> <<"https://", "1337", "-", "sb2">> \o RestletTail],
      [description |-> "Production", account |-> "1337",
       url |-> <<"https://", "1337">> \o RestletTail] }

(***************************************************************************)
(* Realm resolution and credential lookup (executeQuery)                   *)
(***************************************************************************)
\* payload.remoteUrl.match(/^https:\/\/(.*?)\./): the capture group, the text
\* between the leading https:// and the first '.', or NoMatch.
NoMatch == <<"<null>">>

\* The same without the ^https:\/\/ anchor: any scheme is accepted.
RegexMatchAnyScheme(url) ==
    IF Len(url) >= 1 /\ IndexOfTok(url, ".") > 0
    THEN SubSeq(url, 2, IndexOfTok(url, ".") - 1)
    ELSE NoMatch

RegexMatch(url) ==
    IF Len(url) >= 1 /\ url[1] = "https://" /\ IndexOfTok(url, ".") > 0
    THEN SubSeq(url, 2, IndexOfTok(url, ".") - 1)
    ELSE NoMatch

\* const subdomain = match ? match[1] : null  (null is the empty string here:
\* both are falsy and only tested with !subdomain)
Subdomain(url) == IF RegexMatch(url) = NoMatch THEN EmptyStr ELSE RegexMatch(url)

\* const realmKey = subdomain.replace('-', '_').toUpperCase()
RealmKey(subdomain) == ToUpperCase(StringReplace(subdomain, "-", "_"))

\* Array.prototype.find with the predicate entry => entry.realm === realmKey.
\* find visits empty slots as undefined, and reading .realm of undefined
\* throws a TypeError.  The result is [tag |-> "found", entry |-> e],
\* [tag |-> "undefined"] or [tag |-> "TypeError"].
RECURSIVE FindFrom(_, _, _)
FindFrom(list, realmKey, i) ==
    IF i > Len(list) THEN [tag |-> "undefined"]
    ELSE IF list[i].hole THEN [tag |-> "TypeError"]
    ELSE IF list[i].realm = realmKey THEN [tag |-> "found", entry |-> list[i]]
    ELSE FindFrom(list, realmKey, i + 1)

SecretFind(list, realmKey) == FindFrom(list, realmKey, 1)

(***************************************************************************)
(* JavaScript objects and values (oauth.js)                                *)
(***************************************************************************)
\* A property value: a string, or an array of strings.
StrV(s) == [isArray |-> FALSE, s |-> s, items |-> << >>]
ArrV(items) == [isArray |-> TRUE, s |-> EmptyStr, items |-> items]

\* An object is the sequence of its <<key, value>> properties in enumeration
\* order: the integer-like keys ('2', '10') first, in ascending numeric
\* order, then the other keys in insertion order.
EmptyObj == << >>

\* The integer-like keys of the model and their numeric values.
IsIndexKey(k) == Len(k) = 1 /\ k[1] \in {"2", "10"}

IndexVal(k) == IF k[1] = "2" THEN 2 ELSE 10

ObjKeys(o) == [i \in 1..Len(o) |-> o[i][1]]

ObjHas(o, k) == \E i \in 1..Len(o) : o[i][1] = k

ObjGet(o, k) == o[CHOOSE i \in 1..Len(o) : o[i][1] = k][2]

\* o[k] = v: an existing property keeps its position; a new integer-like key
\* goes to its numeric place among the integer-like keys; any other new key
\* is appended.
ObjSet(o, k, v) ==
    IF ObjHas(o, k)
    THEN [i \in 1..Len(o) |-> IF o[i][1] = k THEN <<k, v>> ELSE o[i]]
    ELSE IF IsIndexKey(k)
    THEN LET n == Cardinality({i \in 1..Len(o) :
                      IsIndexKey(o[i][1]) /\ IndexVal(o[i][1]) < IndexVal(k)})
         IN  SubSeq(o, 1, n) \o << <<k, v>> >> \o SubSeq(o, n + 1, Len(o))
    ELSE Append(o, <<k, v>>)

\* The byte order of the tokens that occur in keys and in array values.
TokenOrder ==
    <<"%20", "10", "2", "69", "7", "_method", "consumer_key", "deploy", "forged", "nonce",
      "oauth_", "script", "signature", "timestamp", "token", "version", "x_", "y">>

\* The place of each of these tokens in the byte order.
TokenRanks ==
    [t \in {TokenOrder[i] : i \in 1..Len(TokenOrder)} |->
        CHOOSE i \in 1..Len(TokenOrder) : TokenOrder[i] = t]

TokRank(t) == IF t \in DOMAIN TokenRanks THEN TokenRanks[t] ELSE 0

\* a < b in the default order of Array.prototype.sort (UTF-16 code units).
RECURSIVE StrLess(_, _)
StrLess(a, b) ==
    IF b = << >> THEN FALSE
    ELSE IF a = << >> THEN TRUE
    ELSE IF TokRank(Head(a)) # TokRank(Head(b)) THEN TokRank(Head(a)) < TokRank(Head(b))
    ELSE StrLess(Tail(a), Tail(b))

\* x put into a sorted array, behind the elements that are not greater.
RECURSIVE SortInsert(_, _)
SortInsert(x, sorted) ==
    IF sorted = << >> THEN <<x>>
    ELSE IF StrLess(x, Head(sorted)) THEN <<x>> \o sorted
    ELSE <<Head(sorted)>> \o SortInsert(x, Tail(sorted))

\* Array.prototype.sort() of an array of strings.
RECURSIVE SortStrs(_)
SortStrs(xs) ==
    IF xs = << >> THEN << >>
    ELSE SortInsert(xs[Len(xs)], SortStrs(SubSeq(xs, 1, Len(xs) - 1)))

\* OAuth.prototype.sortObject
\* The loop result[keys[i]] = data[keys[i]] over the sorted keys.
RECURSIVE CopyKeys(_, _)
CopyKeys(keys, data) ==
    IF keys = << >> THEN EmptyObj
    ELSE LET n == Len(keys)
         IN  ObjSet(CopyKeys(SubSeq(keys, 1, n - 1), data), keys[n], ObjGet(data, keys[n]))

sortObject(data) == CopyKeys(SortStrs(ObjKeys(data)), data)

\* A merge that adds to the value a key already has instead of replacing it.
RECURSIVE mergeObjectAccumulating(_, _)
mergeObjectAccumulating(obj1, obj2) ==
    IF obj2 = EmptyObj THEN obj1
    ELSE LET key == Head(obj2)[1]
             value == Head(obj2)[2]
         IN  mergeObjectAccumulating(
                 ObjSet(obj1, key, IF ObjHas(obj1, key)
                                   THEN StrV(ObjGet(obj1, key).s \o value.s)
                                   ELSE value),
                 Tail(obj2))

\* OAuth.prototype.mergeObject: merged_obj IS obj1 (no copy is made), so the
\* result is also the new content of the object the caller passed as obj1.
RECURSIVE mergeObject(_, _)
mergeObject(obj1, obj2) ==
    IF obj2 = EmptyObj THEN obj1
    ELSE mergeObject(ObjSet(obj1, Head(obj2)[1], Head(obj2)[2]), Tail(obj2))

\* String.prototype.split on a one-token separator.
RECURSIVE Split(_, _)
Split(s, sep) ==
    LET k == IndexOfTok(s, sep)
    IN  IF k = 0 THEN <<s>>
        ELSE <<SubSeq(s, 1, k - 1)>> \o Split(SubSeq(s, k + 1, Len(s)), sep)

\* decodeURIComponent, token by token.
DecTok(t) ==
    CASE t = "%20" -> " "
      [] t = "%2F" -> "/"
      [] OTHER -> t

decodeURIComponent(s) == [i \in 1..Len(s) |-> DecTok(s[i])]

\* OAuth.prototype.percentEncode: encodeURIComponent plus ! * ' ( ).
EncTok(t) ==
    CASE t = "https://" -> "https%3A%2F%2F"
      [] t = "http://" -> "http%3A%2F%2F"
      [] t = "/" -> "%2F"
      [] t = "?" -> "%3F"
      [] t = "=" -> "%3D"
      [] t = "&" -> "%26"
      [] t = " " -> "%20"
      [] t = "!" -> "%21"
      [] t = "*" -> "%2A"
      [] t = "'" -> "%27"
      [] t = "(" -> "%28"
      [] t = ")" -> "%29"
      [] OTHER -> t

percentEncode(s) == [i \in 1..Len(s) |-> EncTok(s[i])]

\* OAuth.prototype.deParam
RECURSIVE DeParamItems(_, _)
DeParamItems(arr, data) ==
    IF arr = << >> THEN data
    ELSE LET item == Split(Head(arr), "=")
             item1 == IF Len(item) >= 2 THEN item[2] ELSE EmptyStr
         IN  DeParamItems(Tail(arr), ObjSet(data, item[1], StrV(decodeURIComponent(item1))))

deParam(string) == DeParamItems(Split(string, "&"), EmptyObj)

\* OAuth.prototype.deParamUrl
deParamUrl(url) ==
    LET tmp == Split(url, "?")
    IN  IF Len(tmp) = 1 THEN EmptyObj ELSE deParam(tmp[2])

\* A base URL that keeps the query string.
getBaseUrlWhole(url) == url

\* OAuth.prototype.getBaseUrl
getBaseUrl(url) == Split(url, "?")[1]

\* OAuth.prototype.percentEncodeData
RECURSIVE percentEncodeData(_)
percentEncodeData(data) ==
    IF data = EmptyObj THEN EmptyObj
    ELSE LET key == data[Len(data)][1]
             value == data[Len(data)][2]
             enc == IF value.isArray
                    THEN ArrV([i \in 1..Len(value.items) |-> percentEncode(value.items[i])])
                    ELSE StrV(percentEncode(value.s))
         IN  ObjSet(percentEncodeData(SubSeq(data, 1, Len(data) - 1)), percentEncode(key), enc)

(***************************************************************************)
(* The OAuth 1.0a engine (oauth.js)                                        *)
(***************************************************************************)
\* function OAuth(opts): the engine's fields.  opts.hash_function is one of
\* the exported functions sha1 / sha256, or absent ("none");
\* opts.last_ampersand is "true", "false" or absent ("undefined").
OAuth(opts) ==
    [consumer |-> opts.consumer,
     nonce_length |-> 32,
     version |-> <<"1.0">>,
     realm |-> opts.realm,
     parameter_seperator |-> ", ",
     last_ampersand |-> IF opts.last_ampersand = "undefined" THEN TRUE
                        ELSE opts.last_ampersand = "true",
     signature_method |-> opts.signature_method,
     hash_function |-> IF opts.signature_method = <<"PLAINTEXT">> /\ opts.hash_function = "none"
                       THEN "plaintext" ELSE opts.hash_function]

\* hash_function(base_string, key): PLAINTEXT returns the key; the HMACs are
\* injective symbolic terms of the base string and the key (Base64 text).
HashFunction(name, base_string, key) ==
    IF name = "plaintext" THEN key
    ELSE <<name, "(">> \o base_string \o <<"<key>">> \o key \o <<")">>

\* A signing key that leaves the separator out when there is no token secret,
\* whatever the options.
getSigningKeyBare(this, token_secret) ==
    IF ~Truthy(token_secret)
    THEN percentEncode(this.consumer.secret)
    ELSE percentEncode(this.consumer.secret) \o <<"&">> \o percentEncode(token_secret)

\* OAuth.prototype.getSigningKey
getSigningKey(this, token_secret) ==
    IF ~this.last_ampersand /\ ~Truthy(token_secret)
    THEN percentEncode(this.consumer.secret)
    ELSE percentEncode(this.consumer.secret) \o <<"&">> \o percentEncode(token_secret)

\* The object oauth_data refers to once getParameterString has run: the outer
\* mergeObject writes the request's data and the URL's query parameters into
\* oauth_data itself.
MergedOAuthData(request, oauth_data) ==
    mergeObject(oauth_data, mergeObject(request.data, deParamUrl(request.url)))

\* String.prototype.slice(0, -1): the string without its last character.
DropLastChar(s) ==
    IF s = EmptyStr THEN EmptyStr
    ELSE IF s[Len(s)] \in {"&", "7", "y", "?", "=", "/", ".", "-", "_"}
         THEN SubSeq(s, 1, Len(s) - 1)
    ELSE SubSeq(s, 1, Len(s) - 1) \o <<"<" \o s[Len(s)] \o " less its last character>">>

\* The loop of getParameterString over the sorted, encoded properties.
RECURSIVE JoinItems(_, _)
JoinItems(key, items) ==
    IF items = << >> THEN EmptyStr
    ELSE key \o <<"=">> \o Head(items)
         \o (IF Len(items) > 1 THEN <<"&">> ELSE EmptyStr)
         \o JoinItems(key, Tail(items))

RECURSIVE DataStr(_)
DataStr(base_string_data) ==
    IF base_string_data = EmptyObj THEN EmptyStr
    ELSE LET key == Head(base_string_data)[1]
             value == Head(base_string_data)[2]
         IN  (IF value.isArray
              THEN JoinItems(key, SortStrs(value.items))
              ELSE key \o <<"=">> \o value.s \o <<"&">>)
             \o DataStr(Tail(base_string_data))

\* OAuth.prototype.getParameterString
getParameterString(request, oauth_data) ==
    DropLastChar(DataStr(sortObject(percentEncodeData(MergedOAuthData(request, oauth_data)))))

\* OAuth.prototype.getBaseString
getBaseString(request, oauth_data) ==
    ToUpperCase(request.method) \o <<"&">> \o percentEncode(getBaseUrl(request.url))
        \o <<"&">> \o percentEncode(getParameterString(request, oauth_data))

\* OAuth.prototype.getSignature
getSignature(this, request, token_secret, oauth_data) ==
    HashFunction(this.hash_function, getBaseString(request, oauth_data),
                 getSigningKey(this, token_secret))

\* Keys of the oauth parameters.
OAuthKey(name) == <<"oauth_">> \o name

\* OAuth.prototype.getTimeStamp: whole seconds, rendered as text when encoded.
TimeStr(now) == <<ToString(now)>>

\* OAuth.prototype.authorize: the returned oauth_data.  nonce and now are the
\* results of getNonce() and getTimeStamp().  getSignature runs before the
\* assignment of oauth_signature and leaves oauth_data merged.
authorize(this, request, token, nonce, now) ==
    LET d5 == << <<OAuthKey(<<"consumer_key">>), StrV(this.consumer.key)>>,
                 <<OAuthKey(<<"nonce">>), StrV(nonce)>>,
                 <<OAuthKey(<<"signature", "_method">>), StrV(this.signature_method)>>,
                 <<OAuthKey(<<"timestamp">>), StrV(TimeStr(now))>>,
                 <<OAuthKey(<<"version">>), StrV(this.version)>> >>
        oauth_data == IF Truthy(token.key)
                      THEN ObjSet(d5, OAuthKey(<<"token">>), StrV(token.key))
                      ELSE d5
    IN  ObjSet(MergedOAuthData(request, oauth_data), OAuthKey(<<"signature">>),
               StrV(getSignature(this, request, token.secret, oauth_data)))

\* key.indexOf('oauth_') === -1: the key does not contain 'oauth_' anywhere.
LacksOAuth(key) == IndexOfTok(key, "oauth_") = 0

\* The header attributes toHeader appends in its loop over the sorted data.
RECURSIVE HeaderAttrs(_, _)
HeaderAttrs(this, oauth_data) ==
    IF oauth_data = EmptyObj THEN EmptyStr
    ELSE LET key == Head(oauth_data)[1]
             value == Head(oauth_data)[2]
         IN  (IF LacksOAuth(key) THEN EmptyStr
              ELSE percentEncode(key) \o <<"=\"">> \o percentEncode(value.s) \o <<"\"">>
                   \o <<this.parameter_seperator>>)
             \o HeaderAttrs(this, Tail(oauth_data))

\* header_value.slice(0, -this.parameter_seperator.length)
DropSeparator(this, s) ==
    IF s[Len(s)] = this.parameter_seperator THEN SubSeq(s, 1, Len(s) - 1)
    ELSE SubSeq(s, 1, Len(s) - 1) \o <<"OAut">>

\* OAuth.prototype.toHeader: the Authorization value.
toHeader(this, oauth_data) ==
    DropSeparator(this,
        <<"OAuth ">>
        \o (IF Truthy(this.realm)
            THEN percentEncode(<<"realm">>) \o <<"=\"">> \o percentEncode(this.realm)
                 \o <<"\"">> \o <<this.parameter_seperator>>
            ELSE EmptyStr)
        \o HeaderAttrs(this, sortObject(oauth_data)))

\* getQueryParams (used for GET requests only)
RECURSIVE QueryParamItems(_, _)
QueryParamItems(params, paramObj) ==
    IF params = << >> THEN paramObj
    ELSE LET keyValuePair == Split(Head(params), "=")
             key == keyValuePair[1]
             value == IF Len(keyValuePair) >= 2 THEN keyValuePair[2] ELSE <<"undefined">>
             old == ObjGet(paramObj, key)
         IN  QueryParamItems(Tail(params),
                 IF ObjHas(paramObj, key)
                 THEN ObjSet(paramObj, key,
                             ArrV((IF old.isArray THEN old.items ELSE <<old.s>>) \o <<value>>))
                 ELSE ObjSet(paramObj, key, StrV(value)))

getQueryParams(url) ==
    IF IndexOfTok(url, "?") = 0 THEN EmptyObj
    ELSE QueryParamItems(Split(Split(Split(url, "#")[1], "?")[2], "&"), EmptyObj)

\* getHeaders(options, authInstance): the headers object, whose only property
\* is Authorization.
getHeaders(options, authInstance, nonce, now) ==
    LET data == IF ToUpperCase(options.method) = <<"GET">>
                THEN getQueryParams(options.url) ELSE EmptyObj
        requestData == [url |-> options.url, method |-> options.method, data |-> data]
        token == [key |-> options.tokenKey, secret |-> options.tokenSecret]
    IN  [Authorization |-> toHeader(authInstance,
                               authorize(authInstance, requestData, token, nonce, now))]

(***************************************************************************)
(* JSON values and JSON.parse                                              *)
(***************************************************************************)
\* A JSON value: an object (its properties, <<key, value>> in order), a
\* string (its text) or a literal (the text of a number, array, null).
JObj(props) == [kind |-> "obj", atom |-> EmptyStr, props |-> props]
JStr(s) == [kind |-> "str", atom |-> s, props |-> << >>]
JLit(s) == [kind |-> "lit", atom |-> s, props |-> << >>]

\* The tokens that are a complete JSON number, array or literal.
JsonLiterals == {"[]", "[row]", "0", "1", "null"}

ParseFail == [ok |-> FALSE, val |-> JLit(EmptyStr), next |-> 0]

\* A JSON string starting at s[i] = '"': its text and the index after it.
ParseString(s, i) ==
    IF i <= Len(s) /\ s[i] = "\"" /\ \E j \in (i + 1)..Len(s) : s[j] = "\""
    THEN LET j == CHOOSE j \in (i + 1)..Len(s) :
                      s[j] = "\"" /\ \A k \in (i + 1)..(j - 1) : s[k] # "\""
         IN  [ok |-> TRUE, val |-> JStr(SubSeq(s, i + 1, j - 1)), next |-> j + 1]
    ELSE ParseFail

\* JSON whitespace between tokens: a space, a line break, an indentation.
Whitespace == {" ", "\n", "  "}

\* The first index from i on that holds no whitespace.
RECURSIVE SkipWs(_, _)
SkipWs(s, i) == IF i <= Len(s) /\ s[i] \in Whitespace THEN SkipWs(s, i + 1) ELSE i

RECURSIVE ParseValue(_, _)
RECURSIVE ParseMembers(_, _, _)

\* The members of an object from s[i] on, appended to props, up to the '}'.
ParseMembers(s, i, props) ==
    LET k == ParseString(s, SkipWs(s, i))
        colon == SkipWs(s, k.next)
    IN  IF ~k.ok \/ colon > Len(s) \/ s[colon] # ":" THEN ParseFail
        ELSE LET v == ParseValue(s, colon + 1)
                 after == SkipWs(s, v.next)
             IN  IF ~v.ok \/ after > Len(s) THEN ParseFail
                 ELSE LET ps == ObjSet(props, k.val.atom, v.val)
                      IN  IF s[after] = "}"
                          THEN [ok |-> TRUE, val |-> JObj(ps), next |-> after + 1]
                          ELSE IF s[after] = ","
                          THEN ParseMembers(s, after + 1, ps)
                          ELSE ParseFail

\* The JSON value starting at s[i], after any whitespace.
ParseValue(s, i) ==
    LET b == SkipWs(s, i)
    IN  IF b > Len(s) THEN ParseFail
        ELSE IF s[b] = "{"
             THEN IF SkipWs(s, b + 1) <= Len(s) /\ s[SkipWs(s, b + 1)] = "}"
                  THEN [ok |-> TRUE, val |-> JObj(<< >>), next |-> SkipWs(s, b + 1) + 1]
                  ELSE ParseMembers(s, b + 1, << >>)
        ELSE IF s[b] = "\"" THEN ParseString(s, b)
        ELSE IF s[b] \in JsonLiterals
             THEN [ok |-> TRUE, val |-> JLit(<<s[b]>>), next |-> b + 1]
        ELSE ParseFail

\* JSON.parse(text): [ok |-> TRUE, val |-> v], or ok = FALSE for the
\* SyntaxError it throws.
JSONParse(text) ==
    LET r == ParseValue(text, 1)
    IN  IF r.ok /\ SkipWs(text, r.next) = Len(text) + 1 THEN r ELSE ParseFail

\* The indentation of a line at nesting depth d: d times two spaces.
RECURSIVE Indent(_)
Indent(d) == IF d = 0 THEN << >> ELSE <<"  ">> \o Indent(d - 1)

RECURSIVE Stringify(_, _)
RECURSIVE StringifyMembers(_, _)

\* The members of an object at depth d, one per line, separated by ','.
StringifyMembers(props, d) ==
    IF props = << >> THEN << >>
    ELSE <<"\n">> \o Indent(d) \o <<"\"">> \o Head(props)[1] \o <<"\"", ":", " ">>
         \o Stringify(Head(props)[2], d)
         \o (IF Len(props) > 1 THEN <<",">> ELSE << >>)
         \o StringifyMembers(Tail(props), d)

Stringify(v, d) ==
    IF v.kind = "str" THEN <<"\"">> \o v.atom \o <<"\"">>
    ELSE IF v.kind = "lit" THEN v.atom
    ELSE IF v.props = << >> THEN <<"{", "}">>
    ELSE <<"{">> \o StringifyMembers(v.props, d + 1) \o <<"\n">> \o Indent(d) \o <<"}">>

\* JSON.stringify(value, null, 2)
JSONStringify(value) == Stringify(value, 0)

(***************************************************************************)
(* executeQuery, stage by stage                                            *)
(***************************************************************************)
\* The result of a stage: a value, or the exception it throws.
Ok(v) == [ok |-> TRUE, value |-> v]
Throw(name, message) == [ok |-> FALSE, name |-> name, message |-> message]

\* Lines 442-448: the subdomain and the realm key of payload.remoteUrl.
Resolving(remoteUrl) ==
    IF ~Truthy(Subdomain(remoteUrl))
    THEN Throw(<<"Error">>, <<"Invalid remoteUrl format: unable to extract subdomain">>)
    ELSE Ok(RealmKey(Subdomain(remoteUrl)))

\* A lookup whose failure message dumps the first entry of the list.
LookingUpLeaky(list, key) ==
    LET r == SecretFind(list, key)
    IN  IF r.tag = "found" THEN Ok(r.entry)
        ELSE Throw(<<"Error">>,
                   <<"No credentials found in ">> \o list[1].consumer.secret
                       \o <<"&">> \o list[1].token.secret)

\* Lines 451-454: the credential entry of the realm key.
LookingUp(list, key) ==
    LET r == SecretFind(list, key)
    IN  CASE r.tag = "TypeError" ->
               Throw(<<"TypeError">>, <<"Cannot read properties of undefined (reading 'realm')">>)
          [] r.tag = "undefined" ->
               Throw(<<"Error">>,
                     <<"No credentials found for remote account with realm: ">> \o key)
          [] OTHER -> Ok(r.entry)

\* Lines 456-473: the engine and the headers of the outbound request.
Signing(remoteUrl, entry, nonce, now) ==
    LET auth == OAuth([realm |-> entry.realm,
                       consumer |-> [key |-> entry.consumer.key,
                                     secret |-> entry.consumer.secret],
                       signature_method |-> <<"HMAC-SHA256">>,
                       hash_function |-> "sha256",
                       last_ampersand |-> "undefined"])
        headers == getHeaders([url |-> remoteUrl, method |-> <<"POST">>,
                               tokenKey |-> entry.token.id,
                               tokenSecret |-> entry.token.secret], auth, nonce, now)
    IN  [Authorization |-> headers.Authorization, ContentType |-> <<"application/json">>]

\* What N/https request() does: it throws, or returns a response with a body.
NetErrors == {"SSS_UNKNOWN_HOST", "SSS_REQUEST_TIME_EXCEEDED"}

Bodies ==
    { <<"{", "\"", "records", "\"", ":", "[row]", ",", "\"", "rowCount", "\"", ":", "1", "}">>,
      <<"{", "\"", "error", "\"", ":", "{", "\"", "name", "\"", ":", "\"", "SSS_INVALID_SRCH", "\"",
        ",", "\"", "message", "\"", ":", "\"", "Invalid search", "\"", "}", "}">>,
      <<"{", "}">>,
      <<"{", " ", "\"", "error", "\"", " ", ":", " ", "\"", "Invalid search", "\"", ",", "\n",
        "\"", "records", "\"", ":", "[]", " ", "}", "\n">>,
      <<"<html>">>,
      << >>,
      <<"{", "\"", "records", "\"", ":">> }

\* A parsing stage that wraps what the remote side sent in an envelope.
ParsingEnveloped(body) ==
    IF JSONParse(body).ok THEN Ok(JObj(<< << <<"data">>, JSONParse(body).val >> >>))
    ELSE Throw(<<"SyntaxError">>, <<"Unexpected token in JSON">>)

\* Line 482: JSON.parse(response.body)
Parsing(body) ==
    IF JSONParse(body).ok THEN Ok(JSONParse(body).val)
    ELSE Throw(<<"SyntaxError">>, <<"Unexpected token in JSON">>)

\* An error payload that carries the message alone: { error: e.message }.
ErrorPayloadBare(e) == JObj(<< << <<"error">>, JStr(e.message) >> >>)

\* Line 525: { error: { message: e.message, name: e.name } }
ErrorPayload(e) ==
    JObj(<< << <<"error">>,
               JObj(<< << <<"message">>, JStr(e.message) >>,
                       << <<"name">>, JStr(e.name) >> >>) >> >>)

\* Lines 507-511: the payload of a local run (rows, elapsed time, row count).
LocalPayload(rows) ==
    JObj(<< << <<"records">>, JLit(<<IF rows = 0 THEN "[]" ELSE "[row]">>) >>,
            << <<"elapsedTime">>, JLit(<<"1">>) >>,
            << <<"rowCount">>, JLit(<<ToString(rows)>>) >> >>)

(***************************************************************************)
(* Inputs                                                                  *)
(***************************************************************************)
Schemes == {"https://", "http://"}

LabelParts == {"1337", "sb1", "sb2"}

\* The labels of n hyphen-separated parts.
RECURSIVE LabelsOf(_)
LabelsOf(n) ==
    IF n = 0 THEN {EmptyStr}
    ELSE IF n = 1 THEN {<<p>> : p \in LabelParts}
    ELSE {l \o <<"-", p>> : l \in LabelsOf(n - 1), p \in LabelParts}

Labels == UNION {LabelsOf(n) : n \in 0..MaxLabelParts}

\* What follows the first host label.
Tails ==
    { EmptyStr,
      RestletTail,
      <<".", "evil", "/", "app">>,
      <<".", "restlets", "/", "app", "?", "oauth_", "nonce", "=", "forged">>,
      <<".", "restlets", "/", "app", "?", "oauth_", "consumer_key", "=", "forged">>,
      <<".", "restlets", "/", "app", "?", "x_", "oauth_", "y", "=", "7">> }

\* The remoteUrl values a caller may post; '' (or null) asks for a local run.
RemoteUrls == {EmptyStr} \cup {<<sch>> \o l \o t : sch \in Schemes, l \in Labels, t \in Tails}

Nonces == {<<"nonceA">>, <<"nonceB">>}

\* An object literal: the properties are assigned in the order written.
RECURSIVE MkObj(_)
MkObj(pairs) ==
    IF pairs = << >> THEN EmptyObj
    ELSE LET n == Len(pairs)
         IN  ObjSet(MkObj(SubSeq(pairs, 1, n - 1)), pairs[n][1], pairs[n][2])

\* The options an application may construct the engine with.
EngineConsumer == [key |-> <<"ck">>, secret |-> <<"cs", "!">>]

DefaultOpts ==
    [consumer |-> EngineConsumer, realm |-> EmptyStr,
     signature_method |-> <<"HMAC-SHA256">>, hash_function |-> "sha256",
     last_ampersand |-> "undefined"]

EngineOpts ==
    { DefaultOpts,
      [DefaultOpts EXCEPT !.last_ampersand = "false"],
      [DefaultOpts EXCEPT !.signature_method = <<"PLAINTEXT">>, !.hash_function = "none"],
      [DefaultOpts EXCEPT !.signature_method = <<"PLAINTEXT">>, !.hash_function = "none",
                          !.last_ampersand = "false"] }

\* The tokens an application may sign with; {} has neither key nor secret.
DefaultToken == [key |-> <<"tk">>, secret |-> <<"ts", "*">>]

NoToken == [key |-> EmptyStr, secret |-> EmptyStr]

Tokens == {DefaultToken, NoToken}

\* The URLs an application may sign: without a query, with one parameter,
\* with a repeated key, with '=' in a value, and with a query parameter
\* named oauth_signature.
EngineBase == <<"https://", "1337", ".", "restlets", "/", "app">>

EngineQueries ==
    { EmptyStr,
      <<"?", "script", "=", "69">>,
      <<"?", "script", "=", "7", "&", "script", "=", "69">>,
      <<"?", "script", "=", "69", "=", "7">>,
      <<"?", "oauth_", "signature", "=", "forged">> }

\* The request.data objects an application may pass: none, the same entries
\* in both insertion orders, integer-like keys in both insertion orders, and
\* an array value before and after a plain value in key order.
EngineData ==
    { EmptyObj,
      MkObj(<< <<<<"script">>, StrV(<<"69">>)>>, <<<<"deploy">>, StrV(<<"7">>)>> >>),
      MkObj(<< <<<<"deploy">>, StrV(<<"7">>)>>, <<<<"script">>, StrV(<<"69">>)>> >>),
      MkObj(<< <<<<"10">>, StrV(<<"7">>)>>, <<<<"2">>, StrV(<<"69">>)>> >>),
      MkObj(<< <<<<"2">>, StrV(<<"69">>)>>, <<<<"10">>, StrV(<<"7">>)>> >>),
      MkObj(<< <<<<"deploy">>, ArrV(<< <<"7">>, <<"69">> >>)>>, <<<<"script">>, StrV(<<"69">>)>> >>),
      MkObj(<< <<<<"script">>, ArrV(<< <<"7">>, <<"69">> >>)>>, <<<<"deploy">>, StrV(<<"7">>)>> >>) }

EngineRequest(method, query, data) ==
    [method |-> method, url |-> EngineBase \o query, data |-> data]

\* What an application that serializes sets out with: every URL with every
\* data object, with the default engine and token; and every engine and
\* token with one plain request.
Scenarios ==
    {[opts |-> DefaultOpts, token |-> DefaultToken,
      request |-> EngineRequest(<<"post">>, q, d)] : q \in EngineQueries, d \in EngineData}
    \cup {[opts |-> o, token |-> t,
           request |-> EngineRequest(<<"get">>, <<"?", "script", "=", "69">>, EmptyObj)] :
              o \in EngineOpts, t \in Tokens}

\* What an application that signs sets out with: a request with neither
\* query nor data, one with a query, one whose query has a parameter named
\* oauth_signature and one with data, with the default engine and token; and
\* a request with a query and no token, with a PLAINTEXT engine.
SigningScenarios ==
    {sc \in Scenarios :
        /\ sc.opts = DefaultOpts /\ sc.token = DefaultToken
        /\ sc.request.method = <<"post">>
        /\ \/ sc.request.data = EmptyObj
              /\ sc.request.url \in {EngineBase, EngineBase \o <<"?", "script", "=", "69">>,
                                     EngineBase \o <<"?", "oauth_", "signature", "=", "forged">>}
           \/ sc.request.url = EngineBase \o <<"?", "script", "=", "69">>
              /\ sc.request.data # EmptyObj /\ sc.request.data[1][1] = <<"deploy">>
              /\ ~sc.request.data[1][2].isArray}
    \cup {sc \in Scenarios :
            sc.opts.signature_method = <<"PLAINTEXT">> /\ sc.opts.last_ampersand = "undefined"
            /\ sc.token = NoToken}

\* The oauth parameters an application passes to getSignature itself.
FixedParams(this, token) ==
    LET d5 == << <<OAuthKey(<<"consumer_key">>), StrV(this.consumer.key)>>,
                 <<OAuthKey(<<"nonce">>), StrV(<<"nonceA">>)>>,
                 <<OAuthKey(<<"signature", "_method">>), StrV(this.signature_method)>>,
                 <<OAuthKey(<<"timestamp">>), StrV(<<"1">>)>>,
                 <<OAuthKey(<<"version">>), StrV(this.version)>> >>
    IN  IF Truthy(token.key) THEN ObjSet(d5, OAuthKey(<<"token">>), StrV(token.key)) ELSE d5

\* No operation of the engine has run yet.
NoOut == [op |-> "none", str |-> EmptyStr, obj |-> EmptyObj,
          request |-> EngineRequest(EmptyStr, EmptyStr, EmptyObj), oauth_data |-> EmptyObj]

(***************************************************************************)
(* State                                                                   *)
(***************************************************************************)
VARIABLES
    secrets,    \* which secrets the deployment's secret.js holds
    pc,         \* position of executeQuery: idle, a stage, LOCAL or done
    payload,    \* the request payload
    realmKey,   \* the resolved realm key
    config,     \* the credential entry found
    headers,    \* the headers produced by signing
    requests,   \* the HTTP requests issued in this dispatch
    response,   \* the body of the response received
    written,    \* the values handed to context.response.write (before stringify)
    logged,     \* the details of the errors logged with log.error
    trace,      \* the stages this dispatch has entered, in order
    outcome     \* none, Success or Failed

\* The state of an application that uses the OAuth engine directly.
VARIABLES
    engine,     \* the OAuth instance
    clock,      \* the time in milliseconds
    req,        \* the request object (url, method, data) the application holds
    tok,        \* the token (key, secret) the application holds
    params,     \* the oauth_data object the application passes to getSignature
    calls,      \* nonce, timestamp and time of each authorize call so far
    sigs,       \* the results of the getSignature calls so far
    out         \* the last operation, what it was given and what it returned

dispatchVars == <<secrets, pc, payload, realmKey, config, headers, requests, response,
                  written, logged, trace, outcome>>

engineVars == <<engine, clock, req, tok, params, calls, sigs, out>>

\* The page in the browser and the paginated query of the local branch.
VARIABLES
    state,      \* the client's state object (the fields the run path uses)
    ui,         \* the run button, the run dropdown, the parameters modal, the panel
    pending,    \* the fetches that await their response
    started,    \* how many fetches the page has started
    pagination  \* executePaginatedQuery: its arguments, its locals, what it returned

clientVars == <<state, ui, pending, started>>

pageVars == <<clientVars, pagination>>

vars == <<secrets, pc, payload, realmKey, config, headers, requests, response,
          written, logged, trace, outcome, engine, clock, req, tok, params, calls,
          sigs, out, state, ui, pending, started, pagination>>

\* No page loaded, no paginated query called.
NoState == [remoteAccounts |-> {}, currentAccountId |-> "",
            currentAccountDescription |-> "", results |-> << >>,
            isRunning |-> FALSE, viewMode |-> "table"]

NoUi == [runButtonDisabled |-> FALSE, runDropdown |-> FALSE,
         parametersModal |-> FALSE, chosen |-> << >>,
         panel |-> [kind |-> "welcome", indicator |-> << >>],
         uncaught |-> FALSE]

NoPagination == [rowBegin |-> 1, rowEnd |-> 0, rows |-> 0, records |-> << >>,
                 moreRecords |-> FALSE, currentBegin |-> 1, returned |-> FALSE]

PageIdle ==
    /\ state = NoState
    /\ ui = NoUi
    /\ pending = {}
    /\ started = 0
    /\ pagination = NoPagination

NoHeaders == [Authorization |-> EmptyStr, ContentType |-> EmptyStr]

Stages == <<"RESOLVING", "LOOKING_UP", "SIGNING", "SENDING", "PARSING">>

Init ==
    /\ secrets \in SecretVariants
    /\ pc = "idle"
    /\ payload = [function |-> "queryExecute", remoteUrl |-> EmptyStr]
    /\ realmKey = EmptyStr
    /\ config = Hole
    /\ headers = NoHeaders
    /\ requests = << >>
    /\ response = EmptyStr
    /\ written = << >>
    /\ logged = << >>
    /\ trace = << >>
    /\ outcome = "none"
    /\ engine = OAuth(DefaultOpts)
    /\ clock = 0
    /\ req = EngineRequest(EmptyStr, EmptyStr, EmptyObj)
    /\ tok = NoToken
    /\ params = EmptyObj
    /\ calls = << >>
    /\ sigs = << >>
    /\ out = NoOut
    /\ PageIdle

\* A catch block that logs the error and sends again instead of ending the
\* dispatch.
CaughtRetry(e) ==
    /\ logged' = Append(logged, [title |-> "Query Execution Error", details |-> e])
    /\ written' = written
    /\ outcome' = outcome
    /\ pc' = "SENDING"

\* A catch block that logs the error and throws it again: nothing is written.
CaughtRethrow(e) ==
    /\ logged' = Append(logged, [title |-> "Query Execution Error", details |-> e])
    /\ written' = written
    /\ outcome' = "Failed"
    /\ pc' = "done"

\* Lines 523-528: the catch block and the write that follows it.
Caught(e) ==
    /\ logged' = Append(logged, [title |-> "Query Execution Error", details |-> e])
    /\ written' = Append(written, ErrorPayload(e))
    /\ outcome' = "Failed"
    /\ pc' = "done"

\* handlePostRequest hands a queryExecute payload to executeQuery (line 441).
Request(url) ==
    /\ UNCHANGED <<engineVars, pageVars>>
    /\ pc \in {"idle", "done"}
    /\ payload' = [function |-> "queryExecute", remoteUrl |-> url]
    /\ pc' = IF Truthy(url) THEN "RESOLVING" ELSE "LOCAL"
    /\ trace' = IF Truthy(url) THEN <<"RESOLVING">> ELSE << >>
    /\ realmKey' = EmptyStr
    /\ config' = Hole
    /\ headers' = NoHeaders
    /\ requests' = << >>
    /\ response' = EmptyStr
    /\ written' = << >>
    /\ logged' = << >>
    /\ outcome' = "none"
    /\ UNCHANGED secrets

Resolve ==
    /\ UNCHANGED <<engineVars, pageVars>>
    /\ pc = "RESOLVING"
    /\ LET r == Resolving(payload.remoteUrl)
       IN  IF r.ok
           THEN /\ realmKey' = r.value
                /\ pc' = "LOOKING_UP"
                /\ trace' = Append(trace, "LOOKING_UP")
                /\ UNCHANGED <<written, logged, outcome>>
           ELSE /\ Caught(r)
                /\ UNCHANGED <<realmKey, trace>>
    /\ UNCHANGED <<secrets, payload, config, headers, requests, response>>

Lookup ==
    /\ UNCHANGED <<engineVars, pageVars>>
    /\ pc = "LOOKING_UP"
    /\ LET r == LookingUp(secret(secrets), realmKey)
       IN  IF r.ok
           THEN /\ config' = r.value
                /\ pc' = "SIGNING"
                /\ trace' = Append(trace, "SIGNING")
                /\ UNCHANGED <<written, logged, outcome>>
           ELSE /\ Caught(r)
                /\ UNCHANGED <<config, trace>>
    /\ UNCHANGED <<secrets, payload, realmKey, headers, requests, response>>

Sign ==
    /\ UNCHANGED <<engineVars, pageVars>>
    /\ pc = "SIGNING"
    /\ \E nonce \in Nonces, now \in 1..MaxTime :
           headers' = Signing(payload.remoteUrl, config, nonce, now)
    /\ pc' = "SENDING"
    /\ trace' = Append(trace, "SENDING")
    /\ UNCHANGED <<secrets, payload, realmKey, config, requests, response,
                   written, logged, outcome>>

\* A POST that goes to the URL without its query string.
SentRequestToBase ==
    [method |-> "POST", url |-> getBaseUrl(payload.remoteUrl), headers |-> headers,
     body |-> payload]

\* Lines 475-480: the POST; the request leaves even when request() throws
\* afterwards (a timeout, no answer).
SentRequest ==
    [method |-> "POST", url |-> payload.remoteUrl, headers |-> headers, body |-> payload]

SendReceive ==
    /\ UNCHANGED <<engineVars, pageVars>>
    /\ pc = "SENDING"
    /\ requests' = Append(requests, SentRequest)
    /\ \E body \in Bodies : response' = body
    /\ pc' = "PARSING"
    /\ trace' = Append(trace, "PARSING")
    /\ UNCHANGED <<secrets, payload, realmKey, config, headers, written, logged, outcome>>

SendThrow ==
    /\ UNCHANGED <<engineVars, pageVars>>
    /\ pc = "SENDING"
    /\ requests' = Append(requests, SentRequest)
    /\ \E n \in NetErrors : Caught(Throw(<<n>>, <<"The host you requested is unreachable">>))
    /\ UNCHANGED <<secrets, payload, realmKey, config, headers, response, trace>>

Parse ==
    /\ UNCHANGED <<engineVars, pageVars>>
    /\ pc = "PARSING"
    /\ LET r == Parsing(response)
       IN  IF r.ok
           THEN /\ written' = Append(written, r.value)
                /\ outcome' = "Success"
                /\ pc' = "done"
                /\ UNCHANGED logged
           ELSE Caught(r)
    /\ UNCHANGED <<secrets, payload, realmKey, config, headers, requests, response, trace>>

\* Lines 485-521: the local run; the query engine returns rows or throws.
LocalRun ==
    /\ UNCHANGED <<engineVars, pageVars>>
    /\ pc = "LOCAL"
    /\ \E rows \in 0..1 :
           /\ written' = Append(written, LocalPayload(rows))
           /\ outcome' = "Success"
           /\ pc' = "done"
           /\ UNCHANGED logged
    /\ UNCHANGED <<secrets, payload, realmKey, config, headers, requests, response, trace>>

LocalThrow ==
    /\ UNCHANGED <<engineVars, pageVars>>
    /\ pc = "LOCAL"
    /\ Caught(Throw(<<"SSS_SEARCH_ERROR_OCCURRED">>, <<"Search error occurred">>))
    /\ UNCHANGED <<secrets, payload, realmKey, config, headers, requests, response, trace>>

Next ==
    \/ \E url \in RemoteUrls : Request(url)
    \/ Resolve
    \/ Lookup
    \/ Sign
    \/ SendReceive
    \/ SendThrow
    \/ Parse
    \/ LocalRun
    \/ LocalThrow

Spec == Init /\ [][Next]_vars

TypeOK ==
    /\ secrets \in SecretVariants
    /\ pc \in {"idle", "RESOLVING", "LOOKING_UP", "SIGNING", "SENDING", "PARSING", "LOCAL", "done"}
    /\ outcome \in {"none", "Success", "Failed"}
    /\ Len(requests) \in 0..1

(***************************************************************************)
(* An application that calls the engine itself (oauth.js)                  *)
(***************************************************************************)
\* A timestamp that is read once, when the engine is loaded.
getTimeStampStale(ms) == 0

\* OAuth.prototype.getTimeStamp: Math.floor(new Date().getTime() / 1000).
getTimeStamp(ms) == ms \div 1000

\* request.data once getParameterString has run: the inner mergeObject writes
\* the URL's query parameters into request.data itself.
MergedRequest(request) ==
    [request EXCEPT !.data = mergeObject(request.data, deParamUrl(request.url))]

\* The state an application sets out with, for one of the given scenarios.
EngineInit(scenarios) ==
    /\ secrets = 1
    /\ pc = "idle"
    /\ payload = [function |-> "queryExecute", remoteUrl |-> EmptyStr]
    /\ realmKey = EmptyStr
    /\ config = Hole
    /\ headers = NoHeaders
    /\ requests = << >>
    /\ response = EmptyStr
    /\ written = << >>
    /\ logged = << >>
    /\ trace = << >>
    /\ outcome = "none"
    /\ clock = 0
    /\ calls = << >>
    /\ sigs = << >>
    /\ out = NoOut
    /\ PageIdle
    /\ \E sc \in scenarios :
           /\ engine = OAuth(sc.opts)
           /\ req = sc.request
           /\ tok = sc.token
           /\ params = FixedParams(OAuth(sc.opts), sc.token)

InitOAuth == EngineInit(SigningScenarios)

InitCodec == EngineInit(Scenarios)

\* The time that may pass between two calls: none, or half a second.
Delays == {0, 500}

\* oauth.authorize(req, tok), called delay milliseconds after the last call;
\* nonce is what getNonce draws.
Authorize(nonce, delay) ==
    /\ Len(calls) < MaxCalls
    /\ clock + delay <= MaxTicks * 500
    /\ clock' = clock + delay
    /\ LET now == getTimeStamp(clock')
           result == authorize(engine, req, tok, nonce, now)
       IN  /\ calls' = Append(calls, [nonce |-> nonce, timestamp |-> now, at |-> clock'])
           /\ out' = [op |-> "authorize", str |-> EmptyStr, obj |-> result,
                      request |-> req, oauth_data |-> EmptyObj]
    /\ req' = MergedRequest(req)
    /\ UNCHANGED <<engine, tok, params, sigs>>
    /\ UNCHANGED <<dispatchVars, pageVars>>

\* oauth.getSignature(req, tok.secret, params)
GetSignature ==
    /\ Len(sigs) < MaxSigs
    /\ sigs' = Append(sigs, getSignature(engine, req, tok.secret, params))
    /\ out' = [op |-> "getSignature", str |-> sigs'[Len(sigs')],
               obj |-> EmptyObj, request |-> req, oauth_data |-> params]
    /\ params' = MergedOAuthData(req, params)
    /\ req' = MergedRequest(req)
    /\ UNCHANGED <<engine, clock, tok, calls>>
    /\ UNCHANGED <<dispatchVars, pageVars>>

\* oauth.getSignature(req, tok.secret, result), result being the object the
\* last authorize call returned.
Recompute ==
    /\ out.op = "authorize"
    /\ out' = [op |-> "recompute",
               str |-> getSignature(engine, req, tok.secret, out.obj),
               obj |-> MergedOAuthData(req, out.obj), request |-> req,
               oauth_data |-> out.obj]
    /\ req' = MergedRequest(req)
    /\ UNCHANGED <<engine, clock, tok, params, calls, sigs>>
    /\ UNCHANGED <<dispatchVars, pageVars>>

\* oauth.getParameterString(req, params)
GetParameterString ==
    /\ out.op # "getParameterString"
    /\ out' = [op |-> "getParameterString", str |-> getParameterString(req, params),
               obj |-> EmptyObj, request |-> req, oauth_data |-> params]
    /\ params' = MergedOAuthData(req, params)
    /\ req' = MergedRequest(req)
    /\ UNCHANGED <<engine, clock, tok, calls, sigs>>
    /\ UNCHANGED <<dispatchVars, pageVars>>

\* oauth.getBaseString(req, params)
GetBaseString ==
    /\ out.op # "getBaseString"
    /\ out' = [op |-> "getBaseString", str |-> getBaseString(req, params),
               obj |-> EmptyObj, request |-> req, oauth_data |-> params]
    /\ params' = MergedOAuthData(req, params)
    /\ req' = MergedRequest(req)
    /\ UNCHANGED <<engine, clock, tok, calls, sigs>>
    /\ UNCHANGED <<dispatchVars, pageVars>>

\* oauth.getSigningKey(tok.secret)
GetSigningKey ==
    /\ out.op # "getSigningKey"
    /\ out' = [op |-> "getSigningKey", str |-> getSigningKey(engine, tok.secret),
               obj |-> EmptyObj, request |-> req, oauth_data |-> EmptyObj]
    /\ UNCHANGED <<engine, clock, req, tok, params, calls, sigs>>
    /\ UNCHANGED <<dispatchVars, pageVars>>

\* An application that signs requests.
NextOAuth ==
    \/ \E nonce \in Nonces : \E delay \in Delays : Authorize(nonce, delay)
    \/ GetSignature
    \/ Recompute

SpecOAuth == InitOAuth /\ [][NextOAuth]_vars

\* An application that looks at what the engine serializes.
NextCodec ==
    \/ GetParameterString
    \/ GetBaseString
    \/ GetSigningKey

SpecCodec == InitCodec /\ [][NextCodec]_vars

(***************************************************************************)
(* Properties                                                              *)
(***************************************************************************)
\* The dispatch in progress (or just ended) is a remote one.
Remote == Truthy(payload.remoteUrl)

\* The dense entries of the configured credential list.
Entries == {secret(secrets)[i] : i \in {j \in 1..Len(secret(secrets)) : ~secret(secrets)[j].hole}}

\* sub occurs in s as a contiguous piece of text.
Contains(s, sub) ==
    /\ Len(sub) > 0
    /\ \E i \in 0..(Len(s) - Len(sub)) : SubSeq(s, i + 1, i + Len(sub)) = sub

\* Every piece of text of a JSON value: its keys and its atoms.
RECURSIVE TextsOf(_)
TextsOf(v) ==
    IF v.kind = "obj"
    THEN UNION {{v.props[i][1]} \cup TextsOf(v.props[i][2]) : i \in 1..Len(v.props)}
    ELSE {v.atom}

\* s with EVERY occurrence of token t replaced by u.
ReplaceAllTok(s, t, u) == [i \in 1..Len(s) |-> IF s[i] = t THEN u ELSE s[i]]

\* C1: after RESOLVING, the realm key is the first host label with EVERY '-'
\* replaced by '_', upper-cased.
C1_RealmEveryHyphen ==
    (Remote /\ Len(trace) >= 2) =>
        realmKey = ToUpperCase(ReplaceAllTok(Subdomain(payload.remoteUrl), "-", "_"))

\* C2: when the resolved realm equals the realm of an entry of the credential
\* list, the lookup returns that entry and the dispatch reaches SIGNING with it.
C2_LookupHit ==
    \A e \in Entries :
        (Remote /\ Len(trace) >= 2 /\ pc # "LOOKING_UP" /\ realmKey = e.realm) =>
            (Len(trace) >= 3 /\ trace[3] = "SIGNING" /\ config = e)

\* C3: when no entry has the resolved realm, the dispatch fails with the
\* credential-not-found error, with no credential and no HTTP request.
C3_CredentialMiss ==
    (Remote /\ Len(trace) >= 2 /\ pc = "done" /\ \A e \in Entries : e.realm # realmKey) =>
        /\ outcome = "Failed"
        /\ written = <<ErrorPayload(Throw(<<"Error">>,
               <<"No credentials found for remote account with realm: ">> \o realmKey))>>
        /\ config = Hole
        /\ requests = << >>

\* C4: a request that carries an Authorization header goes to the URL of a
\* configured remote account.
C4_OnlyConfiguredAccounts ==
    \A i \in 1..Len(requests) :
        Truthy(requests[i].headers.Authorization) =>
            requests[i].url \in {a.url : a \in remoteAccounts}

\* C5: a remote dispatch enters RESOLVING, LOOKING_UP, SIGNING, SENDING,
\* PARSING in that order; once a stage failed no stage is entered again; the
\* dispatch ends in exactly one of Success and Failed, and Success only after
\* all five stages.
C5_DispatcherOrdering ==
    /\ trace = SubSeq(Stages, 1, Len(trace))
    /\ (pc \in {Stages[i] : i \in 1..Len(Stages)}) =>
           (Len(trace) > 0 /\ pc = trace[Len(trace)] /\ outcome = "none" /\ written = << >>)
    /\ (outcome # "none") <=> (pc = "done")
    /\ (pc = "done") => (outcome \in {"Success", "Failed"} /\ Len(written) = 1)
    /\ (Remote /\ outcome = "Success") => trace = Stages

C5_Witness == pc = "done" /\ Remote /\ outcome = "Success" /\ trace = Stages

\* The URL has the form https://<host-segment>.<rest> with a non-empty first label.
HasHostLabel(url) ==
    /\ Len(url) >= 3
    /\ url[1] = "https://"
    /\ url[2] # "."
    /\ \E i \in 3..Len(url) : url[i] = "."

\* C6: a remote dispatch whose remoteUrl lacks the form https://<label>.<rest>
\* ends in the invalid-URL failure in RESOLVING: no credential lookup, no
\* signing, no HTTP request.
C6_InvalidUrl ==
    (Remote /\ ~HasHostLabel(payload.remoteUrl)) =>
        /\ Len(trace) <= 1
        /\ realmKey = EmptyStr
        /\ config = Hole
        /\ headers = NoHeaders
        /\ requests = << >>
        /\ (pc = "done") =>
               /\ outcome = "Failed"
               /\ written = <<ErrorPayload(Throw(<<"Error">>,
                      <<"Invalid remoteUrl format: unable to extract subdomain">>))>>

C6_Witness ==
    pc = "done" /\ Remote /\ ~HasHostLabel(payload.remoteUrl) /\ outcome = "Failed"

\* C7: a dispatch issues at most one POST, and a failure ends the dispatch
\* (nothing is sent after it).
C7_NoRetry ==
    /\ Len(requests) <= 1
    /\ (logged # << >>) => (pc = "done" /\ outcome = "Failed")

C7_Witness == pc = "done" /\ outcome = "Failed" /\ Len(requests) = 1

\* The four error kinds of the error taxonomy.
ErrorKinds == {"InvalidUrlError", "CredentialNotFoundError", "SigningError", "TransportError"}

SecretTexts ==
    UNION {{e.consumer.secret, e.token.secret,
            percentEncode(e.consumer.secret) \o <<"&">> \o percentEncode(e.token.secret)}
           : e \in Entries}

\* The error a remote dispatch of url ends with before sending, under the
\* secrets of variant v (NoMatch when it fails in neither of the first stages).
EarlyError(v, url) ==
    LET r1 == Resolving(url)
    IN  IF ~r1.ok THEN r1.message
        ELSE LET r2 == LookingUp(secret(v), r1.value)
             IN  IF ~r2.ok THEN r2.message ELSE NoMatch

\* C9: no text written back to the caller or logged with an error contains a
\* consumer secret, a token secret or a signing key, and the error message of
\* a dispatch is the same under every choice of the secrets.
C9_SecretConfidentiality ==
    /\ \A i \in 1..Len(written) : \A t \in TextsOf(written[i]) :
           \A x \in SecretTexts : ~Contains(t, x)
    /\ \A i \in 1..Len(logged) : \A x \in SecretTexts :
           /\ ~Contains(logged[i].details.message, x)
           /\ ~Contains(logged[i].details.name, x)
    /\ (Remote /\ outcome = "Failed") =>
           \A v \in SecretVariants :
               IF Len(trace) <= 2
               THEN logged[1].details.message = EarlyError(v, payload.remoteUrl)
               ELSE EarlyError(v, payload.remoteUrl) = NoMatch

C9_Witness == pc = "done" /\ outcome = "Failed" /\ Remote /\ config # Hole /\ secrets = 2

\* The names of the attributes of an Authorization value: the text before
\* each '="', attribute by attribute.
AttrNames(h) ==
    LET attrs == Split(SubSeq(h, 2, Len(h)), ", ")
    IN  [i \in 1..Len(attrs) |-> Split(attrs[i], "=\"")[1]]

\* The attribute names other than a leading realm.
OAuthAttrNames(h) ==
    LET names == AttrNames(h)
    IN  IF Len(names) >= 1 /\ names[1] = <<"realm">> THEN Tail(names) ELSE names

\* C10: the Authorization value begins with 'OAuth ', every attribute besides
\* a leading realm has a name that starts with 'oauth_', the names are in
\* alphabetical order, and no key of the URL's query string is among them.
C10_HeaderShape ==
    Truthy(headers.Authorization) =>
        LET h == headers.Authorization
            names == OAuthAttrNames(h)
        IN  /\ h[1] = "OAuth "
            /\ \A i \in 1..Len(names) : Len(names[i]) >= 1 /\ names[i][1] = "oauth_"
            /\ \A i \in 1..(Len(names) - 1) : StrLess(names[i], names[i + 1])
            /\ \A i \in 1..Len(names) :
                   ~ObjHas(deParamUrl(payload.remoteUrl), decodeURIComponent(names[i]))

\* The keys of an object, as a set.
KeySet(o) == {o[i][1] : i \in 1..Len(o)}

\* The keys the signing parameters consist of.
StandardKeys ==
    {OAuthKey(<<"consumer_key">>), OAuthKey(<<"nonce">>), OAuthKey(<<"signature", "_method">>),
     OAuthKey(<<"timestamp">>), OAuthKey(<<"version">>), OAuthKey(<<"signature">>)}

\* C11: the object authorize returns has exactly the keys oauth_consumer_key,
\* oauth_nonce, oauth_signature_method, oauth_timestamp, oauth_version and
\* oauth_signature, plus oauth_token exactly when the token has a key; no key
\* of the request's data or of the URL's query string is among them.
C11_AuthorizeKeys ==
    out.op = "authorize" =>
        KeySet(out.obj) = StandardKeys
            \cup (IF Truthy(tok.key) THEN {OAuthKey(<<"token">>)} ELSE {})

\* C12: with the same request object, the same oauth parameter object and the
\* same credential, every getSignature call returns the same signature,
\* however many getSignature and authorize calls came before it and although
\* each of them writes into the objects it is given.
C12_SignatureDeterminism ==
    \A i \in 1..Len(sigs) : \A j \in 1..Len(sigs) : sigs[i] = sigs[j]

C12_Witness ==
    /\ Len(sigs) >= 2
    /\ Len(calls) >= 1
    /\ deParamUrl(req.url) # EmptyObj
    /\ engine.hash_function = "sha256"

\* C13: the base string that is signed holds no pair whose key is
\* oauth_signature, whatever parameters are passed in, and getSignature
\* computed again from the object authorize returned, with the same request
\* and token secret, is the oauth_signature stored in that object.
C13_SignatureExclusion ==
    out.op = "recompute" =>
        /\ ~Contains(getBaseString(out.request, out.oauth_data),
                     OAuthKey(<<"signature">>) \o <<"%3D">>)
        /\ out.str = ObjGet(out.oauth_data, OAuthKey(<<"signature">>)).s

\* The key=value texts of an object's properties in enumeration order, one
\* per plain value and one per item of an array value (items sorted).
RECURSIVE PairTexts(_)
PairTexts(data) ==
    IF data = EmptyObj THEN << >>
    ELSE LET key == Head(data)[1]
             value == Head(data)[2]
             items == SortStrs(value.items)
         IN  (IF value.isArray
              THEN [i \in 1..Len(items) |-> key \o <<"=">> \o items[i]]
              ELSE <<key \o <<"=">> \o value.s>>)
             \o PairTexts(Tail(data))

\* The sorted, percent-encoded parameters a call of getParameterString with
\* the recorded arguments works on.
SortedParams == sortObject(percentEncodeData(MergedOAuthData(out.request, out.oauth_data)))

\* C14: the parameter string is the key=value texts of all pairs, array items
\* included, with exactly one '&' between two consecutive texts, nothing
\* after the last text and no text cut short.
C14_Separators ==
    out.op = "getParameterString" => Split(out.str, "&") = PairTexts(SortedParams)

\* The keys of the pairs of a parameter string, in the order they appear.
PairKeys(str) ==
    LET pairs == Split(str, "&")
    IN  [i \in 1..Len(pairs) |-> Split(pairs[i], "=")[1]]

\* C15: the keys of the pairs of the parameter string appear in byte-wise
\* lexicographic order, keys that look like integers ('10', '2') included.
C15_ByteOrder ==
    out.op = "getParameterString" =>
        LET keys == PairKeys(out.str)
        IN  \A i \in 1..(Len(keys) - 1) : ~StrLess(keys[i + 1], keys[i])

\* The part of a URL before its first '?'.
BeforeQuery(url) ==
    IF IndexOfTok(url, "?") = 0 THEN url ELSE SubSeq(url, 1, IndexOfTok(url, "?") - 1)

\* C16: the base string consists of exactly three segments separated by '&':
\* the method in upper case, the percent-encoded URL without its query
\* string, and the percent-encoded parameter string.
C16_BaseStringShape ==
    out.op = "getBaseString" =>
        LET segments == Split(out.str, "&")
        IN  /\ Len(segments) = 3
            /\ segments[1] = (IF out.request.method = <<"post">> THEN <<"POST">> ELSE <<"GET">>)
            /\ segments[2] = percentEncode(BeforeQuery(out.request.url))
            /\ ~Contains(segments[2], <<"?">>) /\ ~Contains(segments[2], <<"%3F">>)
            /\ segments[3] = percentEncode(getParameterString(out.request, out.oauth_data))

C16_Witness ==
    /\ out.op = "getBaseString"
    /\ out.request.method = <<"post">>
    /\ Contains(out.request.url, <<"?">>)

\* The key=value texts of a URL's query string, each percent-encoded as the
\* parameter string encodes keys and values: the key is the text before the
\* first '=', the value all the text after it.
QueryPairTexts(url) ==
    IF IndexOfTok(url, "?") = 0 THEN << >>
    ELSE LET pairs == Split(SubSeq(url, IndexOfTok(url, "?") + 1, Len(url)), "&")
         IN  [i \in 1..Len(pairs) |->
                LET eq == IndexOfTok(pairs[i], "=")
                IN  IF eq = 0 THEN percentEncode(pairs[i]) \o <<"=">>
                    ELSE percentEncode(SubSeq(pairs[i], 1, eq - 1)) \o <<"=">>
                         \o percentEncode(SubSeq(pairs[i], eq + 1, Len(pairs[i])))]

\* C17: every key=value pair of the URL's query string is a pair of the
\* parameter string, with its whole value: each value of a repeated key and
\* values that contain '=' included.
C17_QueryPairsSigned ==
    out.op = "getParameterString" =>
        LET pairs == Split(out.str, "&")
            wanted == QueryPairTexts(out.request.url)
        IN  \A i \in 1..Len(wanted) : \E j \in 1..Len(pairs) : pairs[j] = wanted[i]

\* C18: the signing key is percentEncode(consumer secret), '&',
\* percentEncode(token secret) whenever a token secret is supplied or the
\* engine has its default options; without a token secret and with default
\* options it is the encoded consumer secret followed by '&'.
C18_SigningKey ==
    out.op = "getSigningKey" =>
        /\ (Truthy(tok.secret) \/ engine.last_ampersand) =>
               out.str = percentEncode(engine.consumer.secret) \o <<"&">>
                         \o percentEncode(tok.secret)
        /\ (~Truthy(tok.secret) /\ engine.last_ampersand) =>
               out.str = <<"cs", "%21", "&">>

C18_Witness ==
    /\ out.op = "getSigningKey"
    /\ ~Truthy(tok.secret)
    /\ engine.last_ampersand
    /\ out.str[Len(out.str)] = "&"

C20_TransparentRelay ==
    (pc = "done" /\ Remote /\ Len(requests) = 1 /\ JSONParse(response).ok) =>
        /\ outcome = "Success"
        /\ Len(written) = 1
        /\ written[1] = JSONParse(response).val
        /\ JSONParse(JSONStringify(written[1])).ok
        /\ JSONParse(JSONStringify(written[1])).val = JSONParse(response).val

C20_Witness ==
    /\ pc = "done"
    /\ Remote
    /\ outcome = "Success"
    /\ written[1].kind = "obj"
    /\ ObjHas(written[1].props, <<"error">>)
    /\ Contains(JSONStringify(written[1]), <<"\n", "  ", "\"", "error", "\"", ":">>)

\* C21: the request sent in SENDING is a POST to the caller's remoteUrl; its
\* headers are the Authorization value signing produced and Content-Type
\* application/json, nothing else; its body is the payload the caller handed
\* in, as it was before signing.
C21_OutboundRequest ==
    \A i \in 1..Len(requests) :
        LET r == requests[i]
        IN  /\ r.method = "POST"
            /\ r.url = payload.remoteUrl
            /\ DOMAIN r.headers = {"Authorization", "ContentType"}
            /\ r.headers.Authorization = headers.Authorization
            /\ r.headers.Authorization[1] = "OAuth "
            /\ r.headers.ContentType = <<"application/json">>
            /\ r.body = payload
            /\ r.body.remoteUrl = r.url

C21_Witness ==
    /\ Len(requests) = 1
    /\ Contains(requests[1].url, <<"?">>)
    /\ Contains(requests[1].headers.Authorization, OAuthKey(<<"signature">>))

\* The values an Authorization value gives for the attribute called name.
AttrValues(h, name) ==
    LET attrs == Split(SubSeq(h, 2, Len(h)), ", ")
        parts(i) == Split(attrs[i], "=\"")
    IN  {SubSeq(parts(i)[2], 1, Len(parts(i)[2]) - 1) :
            i \in {j \in 1..Len(attrs) : Len(parts(j)) = 2 /\ parts(j)[1] = name}}

\* The signing key inside a signature attribute: what follows the key mark,
\* up to the closing bracket.
SignedWith(sig) ==
    LET k == IndexOfTok(sig, "<key>")
    IN  IF k = 0 THEN EmptyStr ELSE SubSeq(sig, k + 1, Len(sig) - 1)

\* C25: when a dispatch has signed, the credential entry it used is the one
\* entry whose realm is the realm resolved from the URL, and the realm, the
\* consumer key, the token id, the signature method and the two secrets that
\* went into the Authorization value are those of that entry.
C25_CredentialBinding ==
    Truthy(headers.Authorization) =>
        LET h == headers.Authorization
        IN  /\ config \in Entries
            /\ config.realm = realmKey
            /\ \A e \in Entries : e.realm = realmKey => e = config
            /\ AttrValues(h, <<"realm">>) = {config.realm}
            /\ AttrValues(h, OAuthKey(<<"consumer_key">>)) = {config.consumer.key}
            /\ AttrValues(h, OAuthKey(<<"token">>)) = {config.token.id}
            /\ AttrValues(h, OAuthKey(<<"signature", "_method">>)) = {<<"HMAC-SHA256">>}
            /\ \A s \in AttrValues(h, OAuthKey(<<"signature">>)) :
                   /\ s[1] = "sha256"
                   /\ SignedWith(s) = percentEncode(percentEncode(config.consumer.secret)
                                          \o <<"&">> \o percentEncode(config.token.secret))

\* C26: whatever the query string of the URL holds, the oauth_ values in the
\* Authorization value are the ones authorize set: the consumer key and the
\* token id of the configuration, the engine's signature method and version,
\* the nonce it drew and the time it read.
C26_NoOverrideByUrl ==
    Truthy(headers.Authorization) =>
        LET h == headers.Authorization
        IN  /\ AttrValues(h, OAuthKey(<<"consumer_key">>)) = {config.consumer.key}
            /\ AttrValues(h, OAuthKey(<<"token">>)) = {config.token.id}
            /\ AttrValues(h, OAuthKey(<<"signature", "_method">>)) = {<<"HMAC-SHA256">>}
            /\ AttrValues(h, OAuthKey(<<"version">>)) = {<<"1.0">>}
            /\ \E nonce \in Nonces : AttrValues(h, OAuthKey(<<"nonce">>)) = {nonce}
            /\ \E now \in 1..MaxTime :
                   AttrValues(h, OAuthKey(<<"timestamp">>)) = {<<ToString(now)>>}

\* C27: nothing is written while executeQuery is at work, and when it has
\* ended, for a local or a remote payload, having succeeded or thrown at any
\* stage, context.response.write has been called exactly once: with the
\* result payload, or with an object { error: { message, name } }.
C27_ExactlyOneWrite ==
    /\ pc \notin {"idle", "done"} => written = << >>
    /\ pc = "done" =>
           /\ Len(written) = 1
           /\ outcome \in {"Success", "Failed"}
           /\ outcome = "Failed" =>
                  /\ ObjKeys(written[1].props) = << <<"error">> >>
                  /\ ObjKeys(written[1].props[1][2].props) = << <<"message">>, <<"name">> >>
           /\ outcome = "Success" =>
                  \/ Remote /\ written[1] = JSONParse(response).val
                  \/ ~Remote /\ ObjHas(written[1].props, <<"records">>)

C27_Witness ==
    /\ pc = "done"
    /\ ~Remote
    /\ outcome = "Failed"
    /\ Len(written) = 1

(***************************************************************************)
(* The page: what onRequest injects, the client's bootstrap, the run path  *)
(***************************************************************************)
\* The runs one page starts.
MaxRuns == 2

\* The lower-case and the upper-case spelling of the account ids in play.
Spellings == { <<"1337_sb1", "1337_SB1">>, <<"1337_sb2", "1337_SB2">>,
               <<"1337", "1337">>, <<"4242", "4242">> }

SpellingOf(s) == CHOOSE c \in Spellings : s \in {c[1], c[2]}

toLowerCase(s) == IF \E c \in Spellings : s \in {c[1], c[2]} THEN SpellingOf(s)[1] ELSE s

toUpperCase(s) == IF \E c \in Spellings : s \in {c[1], c[2]} THEN SpellingOf(s)[2] ELSE s

\* runtime.accountId of the account the Suitelet is deployed in: one of the
\* configured accounts, or an account the parameter does not list.
AccountIds == {"1337_SB1", "1337_SB2", "1337", "4242"}

\* onRequest: the remote accounts and the account id handed to the page.
onRequest(accountId) ==
    LET currentAccountId == toLowerCase(accountId)
    IN  [remoteAccounts |-> {acc \in remoteAccounts :
                                toLowerCase(acc.account) # currentAccountId},
         currentAccountId |-> currentAccountId]

\* generateClientScript and the construction of the client's state object.
\* find() is a choice here: no two configured accounts share an id.
ClientState(injected) ==
    LET CURRENT_ACCOUNT_ID == toUpperCase(injected.currentAccountId)
        currentAccountId == toUpperCase(CURRENT_ACCOUNT_ID)
        localAccount == {acc \in injected.remoteAccounts :
                            toUpperCase(acc.account) = currentAccountId}
    IN  [remoteAccounts |-> injected.remoteAccounts,
         currentAccountId |-> currentAccountId,
         currentAccountDescription |->
             IF localAccount = {} THEN "This Account"
             ELSE (CHOOSE acc \in localAccount : TRUE).description,
         results |-> << >>,
         isRunning |-> FALSE,
         viewMode |-> "table"]

\* What the editor may hold: nothing, a plain query, a query with a parameter.
Queries == { EmptyStr, <<"SELECT 1">>, <<"SELECT ", "{{", "id", "}}">> }

extractParameters(query) ==
    { query[i + 1] : i \in { j \in 1..(Len(query) - 2) :
                                query[j] = "{{" /\ query[j + 2] = "}}" } }

\* runWithParameters: every placeholder replaced by the value typed for it.
Substituted(query) ==
    LET RECURSIVE From(_)
        From(i) == IF i > Len(query) THEN EmptyStr
                   ELSE IF i + 2 <= Len(query) /\ query[i] = "{{" /\ query[i + 2] = "}}"
                        THEN <<"7">> \o From(i + 3)
                        ELSE <<query[i]>> \o From(i + 1)
    IN  From(1)

\* The page as one value, for the functions that change several parts of it.
Page == [state |-> state, ui |-> ui, pending |-> pending, started |-> started]

\* setRunningState(running) on page p.
setRunningState(p, running) ==
    [p EXCEPT !.state.isRunning = running, !.ui.runButtonDisabled = running]

\* The fetch of a run function: the POST body, and what the function keeps in
\* its closure until the response arrives.  chosen is the target the user
\* started the run against.
Fetch(p, by, remoteUrl, sent, query, chosen) ==
    [p EXCEPT !.pending = @ \cup {[id |-> p.started + 1, by |-> by,
                                   remoteUrl |-> remoteUrl,
                                   body |-> [function |-> "queryExecute",
                                             query |-> query,
                                             remoteUrl |-> sent],
                                   chosen |-> chosen]},
              !.started = @ + 1]

\* runQuery(remoteUrl) up to its await.
runQuery(p, remoteUrl, query) ==
    IF query = EmptyStr THEN p
    ELSE IF extractParameters(query) # {}
         THEN [p EXCEPT !.ui.parametersModal = TRUE, !.ui.chosen = <<remoteUrl>>]
         ELSE Fetch(setRunningState(p, TRUE), "runQuery", remoteUrl, remoteUrl,
                    query, remoteUrl)

\* runQueryWithText(queryText) up to its await: the body has no remoteUrl.
runQueryWithText(p, queryText) ==
    IF queryText = EmptyStr THEN p
    ELSE Fetch(setRunningState(p, TRUE), "runQueryWithText", EmptyStr, EmptyStr,
               queryText, p.ui.chosen[1])

\* The execution context runQuery attaches to a result.
executionContextLatest(remoteUrl) ==
    LET latest == CHOOSE r \in pending : \A q \in pending : q.id <= r.id
        remote == {acc \in state.remoteAccounts : acc.url = latest.remoteUrl}
    IN  IF Truthy(latest.remoteUrl)
        THEN [type |-> "remote",
              accountDescription |-> IF remote = {} THEN "Unknown Remote"
                                     ELSE (CHOOSE acc \in remote : TRUE).description,
              accountId |-> IF remote = {} THEN "Unknown"
                            ELSE (CHOOSE acc \in remote : TRUE).account]
        ELSE [type |-> "local",
              accountDescription |-> state.currentAccountDescription,
              accountId |-> state.currentAccountId]

executionContext(remoteUrl) ==
    LET remote == {acc \in state.remoteAccounts : acc.url = remoteUrl}
    IN  IF Truthy(remoteUrl)
        THEN [type |-> "remote",
              accountDescription |-> IF remote = {} THEN "Unknown Remote"
                                     ELSE (CHOOSE acc \in remote : TRUE).description,
              accountId |-> IF remote = {} THEN "Unknown"
                            ELSE (CHOOSE acc \in remote : TRUE).account]
        ELSE [type |-> "local",
              accountDescription |-> state.currentAccountDescription,
              accountId |-> state.currentAccountId]

\* What the panel shows; TypeError when the header reads the type of a
\* context the data does not have.
EmptyPanel == [kind |-> "empty", indicator |-> << >>]

ErrorPanel == [kind |-> "error", indicator |-> << >>]

TypeError == [kind |-> "TypeError", indicator |-> << >>]

renderResults(data) ==
    IF data.records = 0 THEN EmptyPanel
    ELSE IF data.executionContext = << >> THEN TypeError
    ELSE LET ctx == data.executionContext[1]
         IN  [kind |-> "table",
              indicator |-> <<IF ctx.type = "remote" THEN "Remote" ELSE "Local",
                              ctx.accountDescription, ctx.accountId>>]

\* What the Suitelet may answer: rows, no rows, an error payload; or the
\* fetch fails.
Answers == {"rows", "empty", "error", "rejected"}

\* The data of an answer to request r: the rows of the account the body named.
Data(r, answer) ==
    [records |-> IF answer = "rows" THEN 1 ELSE 0,
     request |-> r.id,
     ranOn |-> r.body.remoteUrl,
     executionContext |-> << >>]

InitClient ==
    /\ secrets = 1
    /\ pc = "idle"
    /\ payload = [function |-> "queryExecute", remoteUrl |-> EmptyStr]
    /\ realmKey = EmptyStr
    /\ config = Hole
    /\ headers = NoHeaders
    /\ requests = << >>
    /\ response = EmptyStr
    /\ written = << >>
    /\ logged = << >>
    /\ trace = << >>
    /\ outcome = "none"
    /\ engine = OAuth(DefaultOpts)
    /\ clock = 0
    /\ req = EngineRequest(EmptyStr, EmptyStr, EmptyObj)
    /\ tok = NoToken
    /\ params = EmptyObj
    /\ calls = << >>
    /\ sigs = << >>
    /\ out = NoOut
    /\ \E accountId \in AccountIds : state = ClientState(onRequest(accountId))
    /\ ui = NoUi
    /\ pending = {}
    /\ started = 0
    /\ pagination = NoPagination

\* A click on the Run button (a disabled button takes no click).
toggleRunDropdown ==
    /\ ~ui.runButtonDisabled
    /\ ui' = [ui EXCEPT !.runDropdown = ~@]
    /\ UNCHANGED <<state, pending, started>>
    /\ UNCHANGED <<dispatchVars, engineVars, pagination>>

\* Page p becomes the page.
Becomes(p) ==
    /\ state' = p.state
    /\ ui' = p.ui
    /\ pending' = p.pending
    /\ started' = p.started
    /\ UNCHANGED <<dispatchVars, engineVars, pagination>>

\* A click on an item of the run dropdown: This Account (no url) or one of
\* the injected remote accounts.
DropdownRun(remoteUrl, query) ==
    /\ ui.runDropdown
    /\ started < MaxRuns
    /\ remoteUrl \in {EmptyStr} \cup {acc.url : acc \in state.remoteAccounts}
    /\ LET p == runQuery(Page, remoteUrl, query)
       IN  Becomes([p EXCEPT !.ui.runDropdown = FALSE])

\* Ctrl/Cmd+Enter, the Run button of the validation panel, the automatic run
\* of a generated query: runQuery() with no argument.
ShortcutRun(query) ==
    /\ started < MaxRuns
    /\ query # EmptyStr
    /\ Becomes(runQuery(Page, EmptyStr, query))

\* The Run button of the parameters modal.
runWithParameters(query) ==
    /\ ui.parametersModal
    /\ started < MaxRuns
    /\ query # EmptyStr
    /\ Becomes(runQueryWithText([Page EXCEPT !.ui.parametersModal = FALSE],
                                Substituted(query)))

\* The response to fetch r arrives and the run function that awaits it goes
\* on to its end.
Respond(r, answer) ==
    /\ r \in pending
    /\ LET data == IF r.by = "runQuery"
                   THEN [Data(r, answer) EXCEPT
                            !.executionContext = <<executionContext(r.remoteUrl)>>]
                   ELSE Data(r, answer)
           shown == renderResults(data)
       IN  /\ state' = [state EXCEPT
                           !.results = IF answer \in {"rows", "empty"}
                                       THEN <<data>> ELSE @,
                           !.isRunning = FALSE]
           /\ ui' = [ui EXCEPT
                        !.panel = IF answer \in {"error", "rejected"} \/ shown = TypeError
                                  THEN ErrorPanel ELSE shown,
                        !.runButtonDisabled = FALSE]
    /\ pending' = pending \ {r}
    /\ UNCHANGED started
    /\ UNCHANGED <<dispatchVars, engineVars, pagination>>

ViewModes == {"table", "datatable"}

\* setViewMode(mode): a TypeError of the renderer is caught by nothing here.
setViewMode(mode) ==
    /\ mode # state.viewMode
    /\ state' = [state EXCEPT !.viewMode = mode]
    /\ ui' = IF state.results = << >> THEN ui
             ELSE LET shown == renderResults(state.results[1])
                  IN  IF shown = TypeError THEN [ui EXCEPT !.uncaught = TRUE]
                      ELSE [ui EXCEPT !.panel = shown]
    /\ UNCHANGED <<pending, started>>
    /\ UNCHANGED <<dispatchVars, engineVars, pagination>>

NextClient ==
    \/ toggleRunDropdown
    \/ \E acc \in remoteAccounts : \E query \in Queries : DropdownRun(acc.url, query)
    \/ \E query \in Queries : DropdownRun(EmptyStr, query)
    \/ \E query \in Queries : ShortcutRun(query)
    \/ \E query \in Queries : runWithParameters(query)
    \/ \E r \in pending : \E answer \in Answers : Respond(r, answer)
    \/ \E mode \in ViewModes : setViewMode(mode)

SpecClient == InitClient /\ [][NextClient]_vars

(***************************************************************************)
(* Properties of the page                                                  *)
(***************************************************************************)
\* C22: whenever state.results is non-null it carries an executionContext of
\* type local or remote, whatever run operation produced it, and no rendering
\* of it (after the run, or again on a change of view mode) fails.
C22_ResultsHaveContext ==
    /\ state.results # << >> =>
           /\ state.results[1].executionContext # << >>
           /\ state.results[1].executionContext[1].type \in {"local", "remote"}
    /\ ~ui.uncaught

\* C23: a run started against a remote account posts that account's url as
\* remoteUrl, also when the run went through the parameters modal; it is
\* never sent without it (which the Suitelet executes locally).
C23_RemoteTargetKept ==
    \A r \in pending : Truthy(r.chosen) => r.body.remoteUrl = r.chosen

\* C24: when the current account is one of the configured accounts, the
\* description the page uses for local runs is the configured description of
\* that account, and a local result is labelled with it.
C24_LocalDescription ==
    \A acc \in remoteAccounts :
        toUpperCase(acc.account) = state.currentAccountId =>
            /\ state.currentAccountDescription = acc.description
            /\ ui.panel.kind = "table" /\ ui.panel.indicator[1] = "Local" =>
                   ui.panel.indicator = <<"Local", acc.description, state.currentAccountId>>

\* C28: while a request of runQuery or runQueryWithText awaits its response,
\* state.isRunning is true and the Run button is disabled.
C28_RunningWhilePending ==
    pending # {} => state.isRunning /\ ui.runButtonDisabled

\* The account a url belongs to, as the deployment's parameter has it.
ConfiguredAt(url) == {acc \in remoteAccounts : acc.url = url}

\* C29: the executionContext attached to a result names the target of the
\* very request that returned the records: local for a request sent without
\* remoteUrl, and the account whose url was sent for a remote one, however
\* the responses of concurrent runQuery calls are ordered.
C29_ContextOfOwnRequest ==
    state.results # << >> /\ state.results[1].executionContext # << >> =>
        LET data == state.results[1]
            ctx == data.executionContext[1]
        IN  IF Truthy(data.ranOn)
            THEN /\ ctx.type = "remote"
                 /\ \E acc \in ConfiguredAt(data.ranOn) :
                        /\ ctx.accountId = acc.account
                        /\ ctx.accountDescription = acc.description
            ELSE /\ ctx.type = "local"
                 /\ ctx.accountId = state.currentAccountId

\* The result of a runQuery call is in, while a runQuery call that was
\* started after it, against another target, still awaits its response.
C29_Witness ==
    /\ state.results # << >>
    /\ state.results[1].executionContext # << >>
    /\ \E r \in pending :
           /\ r.by = "runQuery"
           /\ r.id > state.results[1].request
           /\ r.remoteUrl # state.results[1].ranOn

(***************************************************************************)
(* executePaginatedQuery                                                   *)
(***************************************************************************)
\* The rows one call of the query engine returns at most, which is also the
\* step of the loop.
BatchSize == 5000

\* The result sizes go up to MaxPages full batches (and one row more).
MaxPages == 2

Min(a, b) == IF a < b THEN a ELSE b

Max(a, b) == IF a > b THEN a ELSE b

\* How many rows the query has: around every multiple of the batch size.
RowCounts == { n \in { p * BatchSize + d : p \in 0..MaxPages, d \in {-1, 0, 1} } : n >= 0 }

\* payload.rowBegin: what the options panel can send (an integer other than
\* 0), and 0, which a caller of the Suitelet can post.
RowBegins == {-1, 0, 1, 2, BatchSize + 1}

\* payload.rowEnd; 999999 is what "return all" sends.
RowEnds == {0, 1, BatchSize - 1, BatchSize, BatchSize + 1, 999999}

\* Row numbers lo..hi in order.
RowNumbers(lo, hi) == [i \in 1..Max(0, hi - lo + 1) |-> lo + i - 1]

\* runSuiteQL(...).asMappedResults() for the paginated statement over a
\* query of rows rows: ROWNUM numbers them from 1, the statement keeps those
\* BETWEEN begin AND end, and the engine returns the first BatchSize of them.
runSuiteQL(begin, end, rows) ==
    LET lo == Max(begin, 1)
        hi == Min(Min(end, rows), lo + BatchSize - 1)
    IN  RowNumbers(lo, hi)

InitPaginated ==
    /\ secrets = 1
    /\ pc = "idle"
    /\ payload = [function |-> "queryExecute", remoteUrl |-> EmptyStr]
    /\ realmKey = EmptyStr
    /\ config = Hole
    /\ headers = NoHeaders
    /\ requests = << >>
    /\ response = EmptyStr
    /\ written = << >>
    /\ logged = << >>
    /\ trace = << >>
    /\ outcome = "none"
    /\ engine = OAuth(DefaultOpts)
    /\ clock = 0
    /\ req = EngineRequest(EmptyStr, EmptyStr, EmptyObj)
    /\ tok = NoToken
    /\ params = EmptyObj
    /\ calls = << >>
    /\ sigs = << >>
    /\ out = NoOut
    /\ state = NoState
    /\ ui = NoUi
    /\ pending = {}
    /\ started = 0
    /\ \E rowBegin \in RowBegins : \E rowEnd \in RowEnds : \E rows \in RowCounts :
           pagination = [rowBegin |-> rowBegin, rowEnd |-> rowEnd, rows |-> rows,
                         records |-> << >>, moreRecords |-> TRUE,
                         currentBegin |-> rowBegin, returned |-> FALSE]

\* One pass of the loop: query, concat, test, advance.
Batch ==
    /\ ~pagination.returned
    /\ pagination.moreRecords
    /\ LET results == runSuiteQL(pagination.currentBegin, pagination.rowEnd,
                                 pagination.rows)
       IN  pagination' = [pagination EXCEPT
                             !.records = @ \o results,
                             !.moreRecords = ~(Len(results) < BatchSize),
                             !.currentBegin = @ + BatchSize]
    /\ UNCHANGED <<dispatchVars, engineVars, clientVars>>

\* The loop is left and records is returned.
ReturnRecords ==
    /\ ~pagination.returned
    /\ ~pagination.moreRecords
    /\ pagination' = [pagination EXCEPT !.returned = TRUE]
    /\ UNCHANGED <<dispatchVars, engineVars, clientVars>>

NextPaginated ==
    \/ Batch
    \/ ReturnRecords

SpecPaginated == InitPaginated /\ [][NextPaginated]_vars /\ WF_vars(NextPaginated)

\* C30: what executePaginatedQuery returns is every row whose number lies in
\* [rowBegin, rowEnd], each exactly once, in order, and no other row.
C30_EachRowOnce ==
    pagination.returned =>
        pagination.records = RowNumbers(Max(pagination.rowBegin, 1),
                                        Min(pagination.rowEnd, pagination.rows))

\* C30, termination: every call of executePaginatedQuery returns.
C30_Terminates == <>pagination.returned

=============================================================================
